---- MODULE Spec2Model ----
(***************************************************************************)
(* Verification model of the hash engines of Groestlcoin/hashes:           *)
(*   gost94/src/gost94.rs  - GOST R 34.11-94 engine (compression function, *)
(*                           256-bit length and checksum accumulators,     *)
(*                           process / fixed_result)                       *)
(*   sha3/src/state.rs     - Keccak lane state, absorb_block / as_bytes    *)
(*                                                                         *)
(* Data representation.  TLC integers are 32 bits wide, so a Rust u32 or   *)
(* u64 is held as its hexadecimal digit string, most significant digit     *)
(* first: a u32 is a sequence of 8 digits in 0..15, a u64 one of 16.  All  *)
(* word arithmetic is done on these strings at the full width of the       *)
(* source; nothing is scaled down.  A byte is a number in 0..255, a byte   *)
(* slice a sequence of bytes; source index i is model index i + 1.         *)
(***************************************************************************)
EXTENDS Integers, Sequences, FiniteSets, TLC

(***************************************************************************)
(* Bit and digit helpers.                                                  *)
(***************************************************************************)
RECURSIVE XorBits(_, _, _)
XorBits(va, vb, nbits) ==
    IF nbits = 0 THEN 0
    ELSE ((va + vb) % 2) + (2 * XorBits(va \div 2, vb \div 2, nbits - 1))

\* the u8 / nibble operator ^, tabulated once
XorNib == [va \in 0..15 |-> [vb \in 0..15 |-> XorBits(va, vb, 4)]]

Xor8(va, vb) == (16 * XorNib[va \div 16][vb \div 16]) + XorNib[va % 16][vb % 16]

\* word ^ word
XorW(xw, yw) == [j \in 1..Len(xw) |-> XorNib[xw[j]][yw[j]]] \o <<>>

Pow2(k) == CASE k = 0 -> 1 [] k = 1 -> 2 [] k = 2 -> 4 [] k = 3 -> 8 [] k = 4 -> 16

\* the carry into digit i of xw + yw (digit Len(xw) is the least significant;
\* i = 0 is the carry out of the word): a digit below i makes a carry and
\* every digit in between passes it on
CarryIn(xw, yw, i) ==
    \E j \in (i + 1)..Len(xw) :
        /\ xw[j] + yw[j] >= 16
        /\ \A m \in (i + 1)..(j - 1) : xw[m] + yw[m] = 15

\* the digits of xw + yw mod 16^Len(xw)
SumDigits(xw, yw) ==
    [i \in 1..Len(xw) |->
        (xw[i] + yw[i] + (IF CarryIn(xw, yw, i) THEN 1 ELSE 0)) % 16] \o <<>>

\* uN::overflowing_add
overflowing_add(xw, yw) == [val |-> SumDigits(xw, yw), over |-> CarryIn(xw, yw, 0)]

\* uN::wrapping_add
wrapping_add(xw, yw) == SumDigits(xw, yw)

\* uN::rotate_left(r)
rotate_left(w, r) ==
    LET nd == Len(w)
        e  == [j \in 1..nd |-> w[((j - 1 + (r \div 4)) % nd) + 1]] \o <<>>
        sh == r % 4
    IN  [j \in 1..nd |->
            ((e[j] * Pow2(sh)) % 16) + (e[(j % nd) + 1] \div Pow2(4 - sh))] \o <<>>

Pow16 == << 1, 16, 256, 4096, 65536, 1048576, 16777216, 268435456 >>

\* the word k as nd digits (k a natural number below 2^31)
NatToWord(k, nd) ==
    [j \in 1..nd |-> IF nd - j >= 8 THEN 0 ELSE (k \div Pow16[nd - j + 1]) % 16] \o <<>>

ZeroWord(nd) == [j \in 1..nd |-> 0] \o <<>>
MaxWord(nd) == [j \in 1..nd |-> 15] \o <<>>

(***************************************************************************)
(* byte_tools: little-endian reads and writes.                            *)
(***************************************************************************)
\* read_u32_le / read_u64_le: the word whose little-endian bytes are bs
read_le(bs) ==
    [j \in 1..(2 * Len(bs)) |->
        LET byte == bs[Len(bs) - ((j - 1) \div 2)]
        IN  IF j % 2 = 1 THEN byte \div 16 ELSE byte % 16] \o <<>>

\* write_u32_le / write_u64_le: the little-endian bytes of w
write_le(w) ==
    [i \in 1..(Len(w) \div 2) |->
        (16 * w[Len(w) - (2 * i) + 1]) + w[Len(w) - (2 * i) + 2]] \o <<>>

read_u32v_le(bs) ==
    [i \in 1..(Len(bs) \div 4) |-> read_le(SubSeq(bs, (4 * i) - 3, 4 * i))] \o <<>>

read_u64v_le(bs) ==
    [i \in 1..(Len(bs) \div 8) |-> read_le(SubSeq(bs, (8 * i) - 7, 8 * i))] \o <<>>

\* the little-endian bytes of the words of ws, one word after the other
write_v_le(ws) ==
    IF ws = <<>> THEN <<>>
    ELSE [i \in 1..(Len(ws) * (Len(ws[1]) \div 2)) |->
            write_le(ws[((i - 1) \div (Len(ws[1]) \div 2)) + 1])
                [((i - 1) % (Len(ws[1]) \div 2)) + 1]] \o <<>>

write_u32v_le(ws) == write_v_le(ws)

write_u64v_le(ws) == write_v_le(ws)

(***************************************************************************)
(* gost94.rs: the compression function.                                    *)
(***************************************************************************)
BlockSize == 32

ZeroBlock == [i \in 1..BlockSize |-> 0] \o <<>>

C ==
    << 0, 255, 0, 255, 0, 255, 0, 255,   255, 0, 255, 0, 255, 0, 255, 0,
       0, 255, 255, 0, 255, 0, 0, 255,   255, 0, 0, 0, 255, 255, 0, 255 >>

\* sbox: nibble i of the result is s[i][nibble i of aw] (S-box entries are
\* 4-bit values, so the shifted summands of the source never overlap)
sbox(aw, sb) == [j \in 1..8 |-> sb[(8 - j) + 1][aw[j] + 1]] \o <<>>

\* a round function that substitutes, rotates, and then XORs the key in
g_xor_key(aw, kw, sb) == XorW(rotate_left(sbox(aw, sb), 11), kw)

\* fn g
g(aw, kw, sb) == rotate_left(sbox(wrapping_add(aw, kw), sb), 11)

\* the key index of round r (0..31): k[0..7] three times, then k[7..0]
KeyIdx(r) == IF r < 24 THEN (r % 8) + 1 ELSE (31 - r) + 1

\* one pass of the loop body of encrypt: t = b ^ g(a, k[i]); b = a; a = t
Round(ab, kw, sb) == << XorW(ab[2], g(ab[1], kw, sb)), ab[1] >>

\* passes r .. r + cnt - 1 of the two loops of encrypt: the first half of
\* them, then the rest (each value is computed before it is passed on)
RECURSIVE Rounds(_, _, _, _, _)
Rounds(ab, k, sb, r, cnt) ==
    IF cnt = 1 THEN Round(ab, k[KeyIdx(r)], sb)
    ELSE LET half == Rounds(ab, k, sb, r, cnt \div 2)
         IN  IF Len(half) = 2
             THEN Rounds(half, k, sb, r + (cnt \div 2), cnt - (cnt \div 2))
             ELSE half

\* fn encrypt: the bytes left in msg
encrypt(msg, key, sb) ==
    LET k  == read_u32v_le(key)
        ab == Rounds(<< read_le(SubSeq(msg, 1, 4)), read_le(SubSeq(msg, 5, 8)) >>, k, sb, 0, 32)
    IN  IF Len(k) = 8 THEN write_u32v_le(<< ab[2], ab[1] >>) ELSE <<>>

x(ba, bb) == [i \in 1..BlockSize |-> Xor8(ba[i], bb[i])] \o <<>>

a(xb) ==
    SubSeq(xb, 9, BlockSize) \o [i \in 1..8 |-> Xor8(xb[i], xb[i + 8])]

\* out[i + 4k] = y[8i + k]
p(yb) ==
    [j \in 1..BlockSize |-> yb[(8 * ((j - 1) % 4)) + ((j - 1) \div 4) + 1]] \o <<>>

psi(b) ==
    SubSeq(b, 3, BlockSize)
    \o << Xor8(Xor8(Xor8(Xor8(Xor8(b[1], b[3]), b[5]), b[7]), b[25]), b[31]),
          Xor8(Xor8(Xor8(Xor8(Xor8(b[2], b[4]), b[6]), b[8]), b[26]), b[32]) >>

\* psi applied k >= 1 times: the first half of the applications, then the
\* rest (each value is computed before it is passed on)
RECURSIVE psiN(_, _)
psiN(b, k) ==
    IF Len(b) # BlockSize THEN b
    ELSE IF k = 1 THEN psi(b)
    ELSE LET half == psiN(b, k \div 2)
         IN  IF Len(half) = BlockSize THEN psiN(half, k - (k \div 2)) ELSE half

\* Gost94State::shuffle: the new h
shuffle(hh, m, sblk) ==
    LET res == psi(x(psiN(sblk, 12), m))
    IN  IF Len(res) = BlockSize THEN psiN(x(hh, res), 61) ELSE res

\* Gost94State::f: the new h
f(hh, m, sb) ==
    LET s0 == encrypt(SubSeq(hh, 1, 8), p(x(hh, m)), sb)
        u1 == a(hh)
        v1 == a(a(m))
        s1 == encrypt(SubSeq(hh, 9, 16), p(x(u1, v1)), sb)
        u2 == x(a(u1), C)
        v2 == a(a(v1))
        s2 == encrypt(SubSeq(hh, 17, 24), p(x(u2, v2)), sb)
        u3 == a(u2)
        v3 == a(a(v2))
        s3 == encrypt(SubSeq(hh, 25, 32), p(x(u3, v3)), sb)
        sblk == s0 \o s1 \o s2 \o s3
    IN  IF Len(sblk) = BlockSize THEN shuffle(hh, m, sblk) ELSE sblk

(***************************************************************************)
(* gost94.rs: the 256-bit accumulators.  n and sigma are [u64; 4]; model   *)
(* index 1 is source index 0, the least significant word.                  *)
(***************************************************************************)
U64Digits == 16

One64 == NatToWord(1, U64Digits)

\* w << r and w >> r on a word (bits shifted out are dropped, as in Rust)
shl(w, r) ==
    LET nd == Len(w)
        e  == [j \in 1..nd |-> IF j + (r \div 4) <= nd THEN w[j + (r \div 4)] ELSE 0] \o <<>>
        sh == r % 4
    IN  [j \in 1..nd |->
            ((e[j] * Pow2(sh)) % 16)
            + (IF j < nd THEN e[j + 1] \div Pow2(4 - sh) ELSE 0)] \o <<>>

shr(w, r) ==
    LET nd == Len(w)
        e  == [j \in 1..nd |-> IF j - (r \div 4) >= 1 THEN w[j - (r \div 4)] ELSE 0] \o <<>>
        sh == r % 4
    IN  [j \in 1..nd |->
            (e[j] \div Pow2(sh))
            + (IF j > 1 THEN (e[j - 1] * Pow2(4 - sh)) % 16 ELSE 0)] \o <<>>

\* the operator + of the source: wraps in a build without overflow checks
\* (release), panics in a build with them (debug)
checked_add(xw, yw, checks) ==
    LET r == overflowing_add(xw, yw)
    IN  [val |-> r.val, panic |-> (checks /\ r.over)]

\* the loop of update_sigma from word i on; carry is over.1 of the previous pass
RECURSIVE SigmaLoop(_, _, _, _, _)
SigmaLoop(sig, buf, i, carry, checks) ==
    IF i > 4 THEN [sigma |-> sig, panic |-> FALSE]
    ELSE LET over == overflowing_add(sig[i], buf[i])
             inc  == checked_add(over.val, One64, checks)
         IN  IF carry
             THEN IF inc.panic
                  THEN [sigma |-> sig, panic |-> TRUE]
                  ELSE SigmaLoop([sig EXCEPT ![i] = inc.val], buf, i + 1, over.over, checks)
             ELSE SigmaLoop([sig EXCEPT ![i] = over.val], buf, i + 1, over.over, checks)

\* Gost94State::update_sigma
update_sigma(sig, m, checks) == SigmaLoop(sig, read_u64v_le(m), 1, FALSE, checks)

\* Gost94State::update_n; len is input.len() as u64
update_n(nn, len) ==
    LET r0 == overflowing_add(nn[1], shl(len, 3))
        r1 == overflowing_add(nn[2], wrapping_add(One64, shr(len, 61)))
        r2 == overflowing_add(nn[3], One64)
        r3 == overflowing_add(nn[4], One64)
    IN  IF ~r0.over
        THEN [n |-> << r0.val, nn[2], nn[3], nn[4] >>, panic |-> FALSE]
        ELSE IF ~r1.over
        THEN [n |-> << r0.val, r1.val, nn[3], nn[4] >>, panic |-> FALSE]
        ELSE IF ~r2.over
        THEN [n |-> << r0.val, r1.val, r2.val, nn[4] >>, panic |-> FALSE]
        ELSE [n |-> << r0.val, r1.val, r2.val, r3.val >>, panic |-> r3.over]

ZeroAcc == << ZeroWord(U64Digits), ZeroWord(U64Digits), ZeroWord(U64Digits), ZeroWord(U64Digits) >>

(***************************************************************************)
(* block_buffer::BlockBuffer<U32> (an external crate), as the engine uses  *)
(* it.  The buffer is the sequence of pending bytes; position() is its     *)
(* length.                                                                 *)
(***************************************************************************)
\* the full blocks of data, in order
RECURSIVE FullBlocks(_)
FullBlocks(data) ==
    IF Len(data) < BlockSize THEN <<>>
    ELSE << SubSeq(data, 1, BlockSize) >> \o FullBlocks(SubSeq(data, BlockSize + 1, Len(data)))

\* BlockBuffer::input: the blocks handed to the callback, and the new buffer
BufferInput(buf, input) ==
    LET rem   == BlockSize - Len(buf)
        first == (Len(buf) # 0) /\ (Len(input) >= rem)
        head  == IF first THEN << buf \o SubSeq(input, 1, rem) >> ELSE <<>>
        rest  == IF first THEN SubSeq(input, rem + 1, Len(input)) ELSE input
        full  == FullBlocks(rest)
        tail  == SubSeq(rest, (BlockSize * Len(full)) + 1, Len(rest))
    IN  [blocks |-> head \o full, buf |-> (IF first THEN <<>> ELSE buf) \o tail]

\* BlockBuffer::pad_with::<ZeroPadding>
PadWithZero(buf) == buf \o [i \in 1..(BlockSize - Len(buf)) |-> 0]

(***************************************************************************)
(* gost94.rs: the engine.  An engine value is a record                     *)
(*   h, n, sigma, buffer : the fields of Gost94 / Gost94State              *)
(*   panic               : the call did not return (it panicked)           *)
(*   log                 : the calls of f made so far, in order            *)
(* A log entry gives the block f was called on, why, and n and sigma at    *)
(* the time of the call.                                                   *)
(***************************************************************************)
LogEntry(st, kind, m) == [kind |-> kind, m |-> m, n |-> st.n, sigma |-> st.sigma]

\* self.f(m) within a handler: h changes, the call is logged
CallF(st, kind, m, sb) ==
    [st EXCEPT !.h = f(st.h, m, sb), !.log = Append(st.log, LogEntry(st, kind, m))]

\* the tail of process_block: self.update_sigma(block), which may panic
ApplySigma(st1, sg) == [st1 EXCEPT !.sigma = sg.sigma, !.panic = sg.panic]

\* Gost94State::process_block
process_block(st, kind, block, sb, checks) ==
    ApplySigma(CallF(st, kind, block, sb), update_sigma(st.sigma, block, checks))

\* a dispatch that gives the callback the first block only
DispatchOnce(st, blocks, sb, checks) ==
    IF blocks = <<>> \/ st.panic THEN st
    ELSE process_block(st, "data", Head(blocks), sb, checks)

\* the callback of buffer.input, once per block, until one panics
RECURSIVE Dispatch(_, _, _, _)
Dispatch(st, blocks, sb, checks) ==
    IF blocks = <<>> \/ st.panic THEN st
    ELSE Dispatch(process_block(st, "data", Head(blocks), sb, checks),
                  Tail(blocks), sb, checks)

\* Gost94::new
New(sb, iv) ==
    [h |-> iv, n |-> ZeroAcc, sigma |-> ZeroAcc, buffer |-> <<>>,
     panic |-> FALSE, log |-> <<>>]

\* the end of buffer.input: the rest of the input stays in the buffer
KeepRest(st1, buf) == IF st1.panic THEN st1 ELSE [st1 EXCEPT !.buffer = buf]

\* process after update_n returned un, with bi what buffer.input does
ProcessFrom(st, un, bi, sb, checks) ==
    IF un.panic THEN [st EXCEPT !.n = un.n, !.panic = TRUE]
    ELSE KeepRest(Dispatch([st EXCEPT !.n = un.n], bi.blocks, sb, checks), bi.buf)

\* Input::process
process(st, input, sb, checks) ==
    ProcessFrom(st, update_n(st.n, NatToWord(Len(input), U64Digits)),
                BufferInput(st.buffer, input), sb, checks)

\* fixed_result, lines 251-257: f on the length block, then on the checksum block
LenBlock(st1, sb) == CallF(st1, "len", write_u64v_le(st1.n), sb)

SumBlock(st2, sb) == CallF(st2, "sum", write_u64v_le(st2.sigma), sb)

\* a reset that forgets sigma
EmitKeepSigma(st3, iv) ==
    [st  |-> [st3 EXCEPT !.buffer = <<>>, !.n = ZeroAcc, !.h = iv],
     res |-> st3.h]

\* fixed_result, lines 260-265: the digest, and the engine reset
Emit(st3, iv) ==
    [st  |-> [st3 EXCEPT !.buffer = <<>>, !.n = ZeroAcc, !.h = iv, !.sigma = ZeroAcc],
     res |-> st3.h]

\* fixed_result after the partial block, if any, was processed
Finish(st1, sb, iv) ==
    IF st1.panic THEN [st |-> st1, res |-> <<>>]
    ELSE Emit(SumBlock(LenBlock(st1, sb), sb), iv)

\* a fixed_result that pads and processes the buffer even when it is empty
fixed_result_pad_always(st, sb, iv, checks) ==
    Finish(process_block(st, "pad", PadWithZero(st.buffer), sb, checks), sb, iv)

\* FixedOutput::fixed_result: the engine after the call, and the digest
fixed_result(st, sb, iv, checks) ==
    Finish(IF Len(st.buffer) # 0
           THEN process_block(st, "pad", PadWithZero(st.buffer), sb, checks)
           ELSE st,
           sb, iv)

(***************************************************************************)
(* The engine as a state machine.                                          *)
(***************************************************************************)
VARIABLES
    s, h0,              \* Gost94State.s, Gost94.h0 : the configuration
    h, n, sigma,        \* Gost94State.h, .n, .sigma
    buffer,             \* Gost94.buffer : the pending bytes
    overflow_checks,    \* the build: TRUE panics on integer overflow (debug)
    pc,                 \* "ready" | "done" (fixed_result returned) | "panicked"
    fed,                \* the bytes given to process since new / fixed_result
    flog,               \* the calls of f since new / fixed_result
    out,                \* what the last fixed_result returned, with its log
    cycle, calls,       \* fixed_result calls so far; process calls of this message
    msgid,              \* which message the caller is feeding
    n_start, lens,      \* SpecN: n at the start, and the input lengths since
    sblocks,            \* SpecSigma: the blocks given to update_sigma
    state,              \* Sha3State.state, one copy per target_endian
    pre, before,        \* SpecSha3: the lanes before f1600 / before the last call
    absorbed, handed,   \* SpecSha3: the blocks absorbed; the bytes as_bytes gave f
    emsg, ekey, ab, rnd, prev, eout   \* SpecEnc: encrypt, one round at a time

gostVars == << s, h0, h, n, sigma, buffer, overflow_checks, pc, fed, flog, out,
               cycle, calls, msgid >>

lenVars == << n_start, lens >>

sigVars == << sblocks >>

sha3Vars == << state, pre, before, absorbed, handed >>

encVars == << emsg, ekey, ab, rnd, prev, eout >>

vars == << gostVars, lenVars, sigVars, sha3Vars, encVars >>

\* the variables a specification does not use stay at these values
LenIdle == n_start = <<>> /\ lens = <<>>

SigIdle == sblocks = <<>>

Sha3Idle == state = <<>> /\ pre = <<>> /\ before = <<>> /\ absorbed = <<>> /\ handed = <<>>

EncIdle == emsg = <<>> /\ ekey = <<>> /\ ab = <<>> /\ rnd = 0 /\ prev = <<>> /\ eout = <<>>

\* the S-box of the GOST R 34.11-94 test parameter set
SBoxTest ==
    << << 4, 10, 9, 2, 13, 8, 0, 14, 6, 11, 1, 12, 7, 15, 5, 3 >>,
       << 14, 11, 4, 12, 6, 13, 15, 10, 2, 3, 8, 1, 0, 7, 5, 9 >>,
       << 5, 8, 1, 13, 10, 3, 4, 2, 14, 15, 12, 7, 6, 0, 9, 11 >>,
       << 7, 13, 10, 1, 0, 8, 9, 15, 14, 4, 6, 12, 11, 2, 5, 3 >>,
       << 6, 12, 7, 1, 5, 15, 13, 8, 4, 10, 9, 14, 0, 3, 11, 2 >>,
       << 4, 11, 10, 0, 7, 2, 1, 13, 3, 6, 8, 5, 9, 12, 15, 14 >>,
       << 13, 11, 4, 1, 3, 15, 5, 9, 0, 10, 14, 7, 6, 8, 2, 12 >>,
       << 1, 15, 13, 0, 5, 7, 10, 4, 9, 2, 3, 14, 6, 11, 8, 12 >> >>

\* another S-box: row i is the permutation k -> 5k + i mod 16
SBoxAlt == [i \in 1..8 |-> [k \in 1..16 |-> ((5 * (k - 1)) + i) % 16] \o <<>>] \o <<>>

IVAlt == [i \in 1..BlockSize |-> (11 * i) % 256] \o <<>>

\* byte pos (from 0) of message id.  Message 1 is a plain pattern; message 2
\* is FF x 16, 00 x 16, 01, 00 ...: its second block carries out of word 0 of
\* sigma into a word 1 that is already full
MsgByte(id, pos) ==
    IF id = 1 THEN ((7 * pos) + 3) % 256
    ELSE IF pos < 16 THEN 255 ELSE IF pos = 32 THEN 1 ELSE 0

MsgBytes(id, from, len) == [i \in 1..len |-> MsgByte(id, from + i - 1)] \o <<>>

MaxFed == 65
MaxCalls == 2
MaxCycles == 2

ChunkLens == {0, 1, 31, 32, 33, 65}

\* the configurations and callers explored
Setups ==
    { [s |-> SBoxTest, h0 |-> ZeroBlock, msgid |-> 1, checks |-> FALSE],
      [s |-> SBoxAlt,  h0 |-> IVAlt,     msgid |-> 1, checks |-> TRUE],
      [s |-> SBoxTest, h0 |-> ZeroBlock, msgid |-> 2, checks |-> TRUE],
      [s |-> SBoxAlt,  h0 |-> IVAlt,     msgid |-> 2, checks |-> FALSE] }

NoOut == [res |-> <<>>, log |-> <<>>, fed |-> <<>>]

\* the engine value held in the variables
Eng == [h |-> h, n |-> n, sigma |-> sigma, buffer |-> buffer, panic |-> FALSE, log |-> flog]

Init ==
    \E c \in Setups :
        /\ s = c.s /\ h0 = c.h0 /\ msgid = c.msgid /\ overflow_checks = c.checks
        /\ h = New(c.s, c.h0).h
        /\ n = New(c.s, c.h0).n
        /\ sigma = New(c.s, c.h0).sigma
        /\ buffer = New(c.s, c.h0).buffer
        /\ pc = "ready"
        /\ fed = <<>> /\ flog = <<>> /\ out = NoOut
        /\ cycle = 0 /\ calls = 0
        /\ LenIdle /\ SigIdle /\ Sha3Idle /\ EncIdle

Process ==
    \E len \in ChunkLens :
        /\ pc # "panicked"
        /\ cycle < MaxCycles
        /\ calls < MaxCalls
        /\ Len(fed) + len <= MaxFed
        /\ \E input \in { MsgBytes(msgid, Len(fed), len) } :
           \E st \in { process(Eng, input, s, overflow_checks) } :
               /\ h' = st.h /\ n' = st.n /\ sigma' = st.sigma /\ buffer' = st.buffer
               /\ flog' = st.log
               /\ pc' = IF st.panic THEN "panicked" ELSE "ready"
               /\ fed' = fed \o input
        /\ calls' = calls + 1
        /\ out' = NoOut
        /\ UNCHANGED << s, h0, overflow_checks, cycle, msgid >>
        /\ UNCHANGED << lenVars, sigVars, sha3Vars, encVars >>

FixedResult ==
    /\ pc # "panicked"
    /\ cycle < MaxCycles
    /\ \E fr \in { fixed_result(Eng, s, h0, overflow_checks) } :
           /\ h' = fr.st.h /\ n' = fr.st.n /\ sigma' = fr.st.sigma
           /\ buffer' = fr.st.buffer
           /\ IF fr.st.panic
              THEN /\ pc' = "panicked" /\ out' = NoOut
                   /\ flog' = fr.st.log /\ UNCHANGED << fed, cycle, calls >>
              ELSE /\ pc' = "done"
                   /\ out' = [res |-> fr.res, log |-> fr.st.log, fed |-> fed]
                   /\ flog' = <<>> /\ fed' = <<>> /\ calls' = 0
                   /\ cycle' = cycle + 1
    /\ UNCHANGED << s, h0, overflow_checks, msgid >>
    /\ UNCHANGED << lenVars, sigVars, sha3Vars, encVars >>

Next == Process \/ FixedResult

Spec == Init /\ [][Next]_vars

(***************************************************************************)
(* Properties of the engine (specification Spec).                          *)
(***************************************************************************)
\* the number of entries of a log of a given kind
RECURSIVE CountKind(_, _)
CountKind(log, kind) ==
    IF log = <<>> THEN 0
    ELSE (IF Head(log).kind = kind THEN 1 ELSE 0) + CountKind(Tail(log), kind)

\* bytes [32 i, 32 i + 32) of data, i from 0
BlockOf(data, i) == SubSeq(data, (BlockSize * i) + 1, BlockSize * (i + 1))

\* the last Len(data) mod 32 bytes of data, followed by zeros up to 32 bytes
PaddedTail(data) ==
    LET r == Len(data) % BlockSize
    IN  SubSeq(data, Len(data) - r + 1, Len(data)) \o [i \in 1..(BlockSize - r) |-> 0]

\* the digest of a newly constructed engine given all of data in one call
FreshDigest(data) ==
    fixed_result(process(New(s, h0), data, s, overflow_checks), s, h0, overflow_checks).res

\* C2: when fixed_result has returned, the engine equals Gost94::new(s, h0) for
\* the S-box and IV it was constructed with: h is the IV, n and sigma are zero,
\* the buffer is empty; and the digest a reused engine returns is the one a new
\* engine returns for the same input.
ReuseCorrect ==
    pc = "done" =>
        /\ \E c \in Setups :
              /\ s = c.s /\ h0 = c.h0 /\ msgid = c.msgid
              /\ [h |-> h, n |-> n, sigma |-> sigma, buffer |-> buffer]
                 = [h |-> New(c.s, c.h0).h, n |-> New(c.s, c.h0).n,
                    sigma |-> New(c.s, c.h0).sigma, buffer |-> New(c.s, c.h0).buffer]
        /\ h = h0 /\ n = ZeroAcc /\ sigma = ZeroAcc /\ Len(buffer) = 0
        /\ (cycle >= 2 => out.res = FreshDigest(out.fed))

\* a second fixed_result returned the digest of a two-block message with a
\* partial third block, on an engine with a non-zero IV
ReuseWitness ==
    pc = "done" /\ cycle = 2 /\ Len(out.fed) = 65 /\ h0 # ZeroBlock /\ Len(out.res) = 32

\* C5: a message of L bytes makes floor(L/32) calls of f on data blocks in
\* process, one more on the zero-padded block in fixed_result iff L mod 32 # 0,
\* and exactly two on the length and checksum blocks.
BlockCount ==
    pc = "done" =>
        /\ CountKind(out.log, "data") = Len(out.fed) \div BlockSize
        /\ CountKind(out.log, "pad") = (IF Len(out.fed) % BlockSize # 0 THEN 1 ELSE 0)
        /\ CountKind(out.log, "len") = 1
        /\ CountKind(out.log, "sum") = 1
        /\ Len(out.log) = (Len(out.fed) \div BlockSize)
                          + (IF Len(out.fed) % BlockSize # 0 THEN 1 ELSE 0) + 2

\* a 32-byte message was hashed with one data block and the two synthetic ones
BlockCountWitness ==
    pc = "done" /\ Len(out.fed) = 32 /\ Len(out.log) = 3 /\ out.log[1].kind = "data"

\* the accumulator update_sigma builds from a sequence of blocks
RECURSIVE SigmaOf(_, _)
SigmaOf(blocks, acc) ==
    IF blocks = <<>> THEN acc
    ELSE SigmaOf(Tail(blocks), update_sigma(acc, Head(blocks), FALSE).sigma)

\* the data blocks of a message: its full blocks, then its zero-padded tail
DataBlocks(data) ==
    FullBlocks(data) \o (IF Len(data) % BlockSize # 0 THEN << PaddedTail(data) >> ELSE <<>>)

\* The order of the calls of f in fixed_result: on the zero-padded partial block
\* (only if there is one), then on the little-endian length block, then on the
\* little-endian checksum block; the length block is 8 * (bytes given to
\* process), padding not counted; the two last calls change neither n nor
\* sigma, and the checksum block is what update_sigma built from the data
\* blocks alone.
FinalizeOrder ==
    pc = "done" =>
        LET log == out.log
            k   == Len(log)
            L   == Len(out.fed)
        IN  /\ k >= 2
            /\ log[k].kind = "sum" /\ log[k - 1].kind = "len"
            /\ \A i \in 1..(k - 2) : log[i].kind \in {"data", "pad"}
            /\ (L % BlockSize # 0 =>
                    /\ log[k - 2].kind = "pad"
                    /\ log[k - 2].m = PaddedTail(out.fed))
            /\ (L % BlockSize = 0 => \A i \in 1..(k - 2) : log[i].kind = "data")
            /\ log[k - 1].m = write_le(NatToWord(8 * L, 4 * U64Digits))
            /\ log[k].m = write_u64v_le(log[k].sigma)
            /\ log[k].n = log[k - 1].n /\ log[k].sigma = log[k - 1].sigma
            /\ log[k].sigma = SigmaOf(DataBlocks(out.fed), ZeroAcc)

\* the sum mod 2^256 of blocks, each read as a little-endian number
RECURSIVE BlockSum(_)
BlockSum(bs) ==
    IF bs = <<>> THEN ZeroWord(4 * U64Digits)
    ELSE wrapping_add(read_le(Head(bs)), BlockSum(Tail(bs)))

\* C8 (as claimed): fixed_result calls f on the zero-padded partial block (only
\* if there is one), on the little-endian length block, and last on the
\* little-endian checksum block; the length block is 8 * (bytes given to
\* process); the checksum block is the sum of the data blocks (the zero-padded
\* one included, the length block not).
FinalizeFraming ==
    pc = "done" =>
        /\ FinalizeOrder
        /\ out.log[Len(out.log)].m = write_le(BlockSum(DataBlocks(out.fed)))

\* a 33-byte message: padded block, then length block, then checksum block
FinalizeOrderWitness ==
    /\ pc = "done" /\ Len(out.fed) = 33 /\ Len(out.log) = 4
    /\ out.log[2].kind = "pad" /\ out.log[3].kind = "len" /\ out.log[4].kind = "sum"
    /\ out.log[4].sigma # ZeroAcc

\* C9: after process calls totalling T bytes, process_block has been called
\* floor(T/32) times, the i-th call on bytes [32 i, 32 i + 32) of the input
\* (i from 0), and the buffer holds the last T mod 32 bytes: its position is
\* T mod 32, below 32, and 0 at a block boundary.
BufferDispatch ==
    pc = "ready" =>
        /\ Len(flog) = Len(fed) \div BlockSize
        /\ \A i \in 1..Len(flog) :
              flog[i].kind = "data" /\ flog[i].m = BlockOf(fed, i - 1)
        /\ Len(buffer) = Len(fed) % BlockSize
        /\ Len(buffer) < BlockSize
        /\ buffer = SubSeq(fed, Len(fed) - Len(buffer) + 1, Len(fed))

\* two calls gave 65 bytes: two blocks were dispatched and one byte is pending
BufferDispatchWitness ==
    pc = "ready" /\ calls = 2 /\ Len(fed) = 65 /\ Len(flog) = 2 /\ Len(buffer) = 1

\* chunking invariance for the short messages of Spec (no input of 2^61 bytes
\* or more): the engine state, and the digest, are those of one call on all
\* the input
ChunkingShort ==
    /\ (pc = "ready" =>
            \E st \in { process(New(s, h0), fed, s, overflow_checks) } :
                h = st.h /\ n = st.n /\ sigma = st.sigma /\ buffer = st.buffer)
    /\ (pc = "done" => out.res = FreshDigest(out.fed))

(***************************************************************************)
(* SpecN: the length counter.  process starts with update_n(input.len());  *)
(* here the inputs are given by their lengths alone, over the whole range  *)
(* of a slice length (up to isize::MAX = 2^63 - 1 bytes), and the engine   *)
(* starts at any count a run of shorter inputs can have reached.           *)
(***************************************************************************)
\* a u64 from its 16 hexadecimal digits
Hex64(d1, rest) == << d1 >> \o [j \in 1..(U64Digits - 1) |-> rest]

\* input lengths: 0, 1, 33, 2^61 - 1, 2^61, 2^62 + 1, 2^63 - 1
LensN ==
    { NatToWord(0, U64Digits), NatToWord(1, U64Digits), NatToWord(33, U64Digits),
      Hex64(1, 15), Hex64(2, 0), [Hex64(4, 0) EXCEPT ![U64Digits] = 1], Hex64(7, 15) }

\* the word 2^64 - 8
Max64Less7 == [MaxWord(U64Digits) EXCEPT ![U64Digits] = 8]

\* counts of bits (all multiples of 8) the engine may have reached
StartN ==
    { ZeroAcc,
      << Max64Less7, ZeroWord(U64Digits), ZeroWord(U64Digits), ZeroWord(U64Digits) >>,
      << Max64Less7, MaxWord(U64Digits), ZeroWord(U64Digits), ZeroWord(U64Digits) >>,
      << ZeroWord(U64Digits), MaxWord(U64Digits), MaxWord(U64Digits), MaxWord(U64Digits) >>,
      << Max64Less7, MaxWord(U64Digits), MaxWord(U64Digits), MaxWord(U64Digits) >> }

MaxLenCalls == 3

InitN ==
    /\ n \in StartN /\ n_start = n /\ lens = <<>>
    /\ pc = "ready"
    /\ s = SBoxTest /\ h0 = ZeroBlock /\ h = ZeroBlock /\ sigma = ZeroAcc
    /\ buffer = <<>> /\ overflow_checks = FALSE
    /\ fed = <<>> /\ flog = <<>> /\ out = NoOut /\ cycle = 0 /\ calls = 0 /\ msgid = 0
    /\ SigIdle /\ Sha3Idle /\ EncIdle

\* process on an input of len bytes: what it does to n, and whether it panics
ProcessLen ==
    \E len \in LensN :
        /\ pc = "ready"
        /\ Len(lens) < MaxLenCalls
        /\ \E un \in { update_n(n, len) } :
               /\ n' = un.n
               /\ pc' = IF un.panic THEN "panicked" ELSE "ready"
        /\ lens' = Append(lens, len)
        /\ UNCHANGED << s, h0, h, sigma, buffer, overflow_checks, fed, flog, out,
                        cycle, calls, msgid, n_start >>
        /\ UNCHANGED << sigVars, sha3Vars, encVars >>

NextN == ProcessLen

SpecN == InitN /\ [][NextN]_vars

\* Reference arithmetic on wide unsigned integers (68 hexadecimal digits).
WideDigits == (4 * U64Digits) + 4

Wide(w) == ZeroWord(WideDigits - Len(w)) \o w

\* the accumulator nn as one number: nn[4] is the most significant word
Acc256(nn) == nn[4] \o nn[3] \o nn[2] \o nn[1]

\* 8 * (sum of the lengths), plus start
RECURSIVE WideBits(_, _)
WideBits(ls, start) ==
    IF ls = <<>> THEN start
    ELSE WideBits(Tail(ls), wrapping_add(start, shl(Wide(Head(ls)), 3)))

\* the sum of the lengths
RECURSIVE WideSum(_)
WideSum(ls) ==
    IF ls = <<>> THEN ZeroWord(WideDigits)
    ELSE wrapping_add(Wide(Head(ls)), WideSum(Tail(ls)))

\* the number of bits given to the engine so far, counting those before the start
TotalBits == WideBits(lens, Wide(Acc256(n_start)))

\* w < 2^256, w < 2^63
Fits256(w) == \A j \in 1..(WideDigits - 64) : w[j] = 0
FitsSlice(w) == (\A j \in 1..(WideDigits - U64Digits) : w[j] = 0) /\ w[WideDigits - U64Digits + 1] < 8

\* C3 (as claimed): after process calls on a new engine totalling L bytes, n read
\* as a 256-bit number is 8 * L, whenever 8 * L < 2^256.
LengthCount ==
    (pc = "ready" /\ n_start = ZeroAcc /\ Fits256(TotalBits)) => Wide(Acc256(n)) = TotalBits

\* C6 (as claimed): a process call that takes the total past 2^256 - 1 bits
\* panics, and update_n panics in no other case.
OverflowFatal ==
    /\ (~ Fits256(TotalBits) => pc = "panicked")
    /\ (pc = "panicked" => ~ Fits256(TotalBits))

\* C1 (as claimed, for n): n after feeding a new engine in several calls is n
\* after feeding it the same bytes in one call.
ChunkingN ==
    (pc = "ready" /\ n_start = ZeroAcc /\ FitsSlice(WideSum(lens))) =>
        n = update_n(ZeroAcc, SubSeq(WideSum(lens), WideDigits - U64Digits + 1, WideDigits)).n

(***************************************************************************)
(* SpecSigma: the checksum.  A new engine is given blocks; process_block   *)
(* calls update_sigma on each.                                             *)
(***************************************************************************)
LeBlock(w1, w2, w3, w4) == write_u64v_le(<< w1, w2, w3, w4 >>)

SigmaBlocks ==
    { LeBlock(MaxWord(U64Digits), MaxWord(U64Digits), ZeroWord(U64Digits), ZeroWord(U64Digits)),
      LeBlock(One64, ZeroWord(U64Digits), ZeroWord(U64Digits), ZeroWord(U64Digits)),
      LeBlock(MaxWord(U64Digits), MaxWord(U64Digits), MaxWord(U64Digits), MaxWord(U64Digits)),
      LeBlock(ZeroWord(U64Digits), MaxWord(U64Digits), One64, Hex64(8, 0)),
      MsgBytes(1, 0, BlockSize),
      ZeroBlock }

MaxSigmaBlocks == 3

InitSigma ==
    /\ sigma = ZeroAcc /\ sblocks = <<>>
    /\ overflow_checks \in BOOLEAN
    /\ pc = "ready"
    /\ s = SBoxTest /\ h0 = ZeroBlock /\ h = ZeroBlock /\ n = ZeroAcc
    /\ buffer = <<>>
    /\ fed = <<>> /\ flog = <<>> /\ out = NoOut /\ cycle = 0 /\ calls = 0 /\ msgid = 0
    /\ LenIdle /\ Sha3Idle /\ EncIdle

\* process_block on a block: what it does to sigma, and whether it panics
UpdateSigma ==
    \E m \in SigmaBlocks :
        /\ pc = "ready"
        /\ Len(sblocks) < MaxSigmaBlocks
        /\ \E sg \in { update_sigma(sigma, m, overflow_checks) } :
               /\ sigma' = sg.sigma
               /\ pc' = IF sg.panic THEN "panicked" ELSE "ready"
        /\ sblocks' = Append(sblocks, m)
        /\ UNCHANGED << s, h0, h, n, buffer, overflow_checks, fed, flog, out,
                        cycle, calls, msgid >>
        /\ UNCHANGED << lenVars, sha3Vars, encVars >>

NextSigma == UpdateSigma

SpecSigma == InitSigma /\ [][NextSigma]_vars

\* C4 (as claimed): after process_block on blocks B1..Bk, sigma read as a
\* 256-bit number is (B1 + ... + Bk) mod 2^256, and no addition of
\* update_sigma overflows a word with its carry lost.
ChecksumSum ==
    /\ pc # "panicked"
    /\ Acc256(sigma) = BlockSum(sblocks)

(***************************************************************************)
(* sha3/src/state.rs.  The program is compiled for one byte order; the     *)
(* model runs the two builds side by side on the same inputs: state[t],    *)
(* pre[t], before[t], handed[t] belong to the build for target_endian = t. *)
(* A lane is a u64; the lane array is a sequence of PLEN lanes.            *)
(***************************************************************************)
PLEN == 25

Targets == {"little", "big"}

\* the bytes of a word in memory order on a target
to_ne_bytes(target, w) ==
    IF target = "little"
    THEN [i \in 1..(Len(w) \div 2) |-> (16 * w[Len(w) - (2 * i) + 1]) + w[Len(w) - (2 * i) + 2]] \o <<>>
    ELSE [i \in 1..(Len(w) \div 2) |-> (16 * w[(2 * i) - 1]) + w[2 * i]] \o <<>>

\* the word whose bytes in memory order on a target are bs
from_ne_bytes(target, bs) ==
    IF target = "little"
    THEN [j \in 1..(2 * Len(bs)) |->
             IF j % 2 = 1 THEN bs[Len(bs) - ((j - 1) \div 2)] \div 16
             ELSE bs[Len(bs) - ((j - 1) \div 2)] % 16] \o <<>>
    ELSE [j \in 1..(2 * Len(bs)) |->
             IF j % 2 = 1 THEN bs[(j + 1) \div 2] \div 16 ELSE bs[(j + 1) \div 2] % 16] \o <<>>

\* the cast of the lane array to [u8; 8 * PLEN]: the memory of the lanes
ByteView(target, lanes) ==
    [i \in 1..(8 * Len(lanes)) |->
        to_ne_bytes(target, lanes[((i - 1) \div 8) + 1])[((i - 1) % 8) + 1]] \o <<>>

\* the lane array whose memory is bs
LanesOf(target, bs) ==
    [i \in 1..(Len(bs) \div 8) |-> from_ne_bytes(target, SubSeq(bs, (8 * i) - 7, 8 * i))] \o <<>>

\* for (d, i) in view.iter_mut().zip(block) { *d ^= *i }
XorZip(view, block) ==
    [i \in 1..Len(view) |-> IF i <= Len(block) THEN Xor8(view[i], block[i]) ELSE view[i]] \o <<>>

\* for (d, i) in self.state[..nl].iter_mut().zip(buf) { *d ^= *i }
XorLanes(lanes, buf) ==
    [i \in 1..Len(lanes) |-> IF i <= Len(buf) THEN XorW(lanes[i], buf[i]) ELSE lanes[i]] \o <<>>

\* as AbsorbXor, but the explicit path reads the block with big-endian reads
AbsorbXorBeRead(target, lanes, block) ==
    IF target = "little"
    THEN LanesOf(target, XorZip(ByteView(target, lanes), block))
    ELSE XorLanes(lanes, LanesOf("big", block))

\* absorb_block up to the permutation: the lanes with the block XORed in
AbsorbXor(target, lanes, block) ==
    IF target = "little"
    THEN LanesOf(target, XorZip(ByteView(target, lanes), block))
    ELSE XorLanes(lanes, read_u64v_le(block))

\* keccak::f1600 is the permutation of an external crate.  What matters here
\* is that it is one function of the lane values, the same on every target;
\* this stand-in mixes the lanes so that later states have no byte symmetry.
f1600(lanes) ==
    [i \in 1..PLEN |->
        wrapping_add(rotate_left(lanes[(i % PLEN) + 1], (3 * i) % 64),
                     NatToWord(40503 + (977 * i), U64Digits))] \o <<>>

\* Sha3State::absorb_block
absorb_block(target, lanes, block) == f1600(AbsorbXor(target, lanes, block))

\* Sha3State::as_bytes: the bytes given to the callback
as_bytes(target, lanes) ==
    IF target = "little" THEN ByteView(target, lanes) ELSE write_u64v_le(lanes)

\* the bytes of a block of the second kind: high bits set, no two alike
HighByte(pos) == 255 - ((3 * pos) % 256)

\* blocks of the rates of SHA-3 and SHAKE (72 .. 168 bytes), and a one-lane block
Sha3Lens == {8, 72, 104, 136, 168}

Sha3Blocks ==
    { MsgBytes(1, 0, len) : len \in Sha3Lens } \cup
    { [i \in 1..len |-> HighByte(i)] \o <<>> : len \in Sha3Lens }

MaxAbsorb == 2

\* Sha3State::default(): all lanes zero
InitSha3 ==
    /\ state = [t \in Targets |-> [i \in 1..PLEN |-> ZeroWord(U64Digits)] \o <<>>]
    /\ pre = state /\ before = state
    /\ absorbed = <<>>
    /\ handed = [t \in Targets |-> <<>>]
    /\ pc = "ready"
    /\ s = SBoxTest /\ h0 = ZeroBlock /\ h = ZeroBlock /\ n = ZeroAcc /\ sigma = ZeroAcc
    /\ buffer = <<>> /\ overflow_checks = FALSE
    /\ fed = <<>> /\ flog = <<>> /\ out = NoOut /\ cycle = 0 /\ calls = 0 /\ msgid = 0
    /\ LenIdle /\ SigIdle /\ EncIdle

AbsorbBlock ==
    \E block \in Sha3Blocks :
        /\ Len(absorbed) < MaxAbsorb
        /\ before' = state
        /\ pre' = [t \in Targets |-> AbsorbXor(t, state[t], block)]
        /\ state' = [t \in Targets |-> absorb_block(t, state[t], block)]
        /\ absorbed' = Append(absorbed, block)
        /\ handed' = [t \in Targets |-> <<>>]
        /\ UNCHANGED << gostVars, lenVars, sigVars, encVars >>

AsBytes ==
    /\ handed' = [t \in Targets |-> as_bytes(t, state[t])]
    /\ UNCHANGED << state, pre, before, absorbed >>
    /\ UNCHANGED << gostVars, lenVars, sigVars, encVars >>

NextSha3 == AbsorbBlock \/ AsBytes

SpecSha3 == InitSha3 /\ [][NextSha3]_vars

\* byte j (from 0) of the little-endian serialization of a lane, by arithmetic
\* on the lane's digits
LeByte(w, j) == (16 * w[U64Digits - (2 * j) - 1]) + w[U64Digits - (2 * j)]

\* lane i (from 1) of a block: the lane whose little-endian bytes are bytes
\* 8 (i - 1) .. 8 i - 1 of the block
BlockLane(block, i) ==
    [j \in 1..U64Digits |->
        IF j % 2 = 1 THEN block[(8 * i) - ((j - 1) \div 2)] \div 16
        ELSE block[(8 * i) - ((j - 1) \div 2)] % 16] \o <<>>

\* C7: for a block of 8 k <= 168 bytes the two paths of absorb_block give the
\* same 25 lanes before the permutation: lane i < k is the old lane XOR lane i
\* of the block read little-endian, lanes i >= k are unchanged; and as_bytes
\* gives the callback the little-endian bytes of the 25 lanes on both paths.
LanePortable ==
    /\ state["little"] = state["big"]
    /\ (absorbed # <<>> =>
           LET block == absorbed[Len(absorbed)]
               k     == Len(block) \div 8
           IN  /\ pre["little"] = pre["big"]
               /\ \A t \in Targets :
                     /\ Len(pre[t]) = PLEN
                     /\ \A i \in 1..PLEN :
                           pre[t][i] = IF i <= k
                                       THEN XorW(before[t][i], BlockLane(block, i))
                                       ELSE before[t][i])
    /\ \A t \in Targets :
          handed[t] # <<>> =>
              /\ Len(handed[t]) = 8 * PLEN
              /\ \A i \in 1..PLEN : \A j \in 0..7 :
                    handed[t][(8 * (i - 1)) + j + 1] = LeByte(state[t][i], j)

\* two blocks were absorbed, the last one of 72 bytes into lanes that were not
\* zero and whose bytes differ in the two byte orders, and as_bytes was called
LanePortableWitness ==
    /\ Len(absorbed) = 2 /\ Len(absorbed[2]) = 72
    /\ before["big"][1] # ZeroWord(U64Digits)
    /\ to_ne_bytes("big", before["big"][1]) # to_ne_bytes("little", before["big"][1])
    /\ pre["big"][9] # before["big"][9] /\ pre["big"][10] = before["big"][10]
    /\ handed["big"] # <<>> /\ handed["little"] # <<>>

(***************************************************************************)
(* SpecEnc: encrypt, one pass of its loops at a time.  ab is << a, b >> of *)
(* the source, rnd the number of passes done, prev the pair before the     *)
(* last pass; eout is what write_u32v_le leaves in msg.                    *)
(***************************************************************************)
EncRounds == 32

EncMsgs == { MsgBytes(1, 0, 8), [i \in 1..8 |-> HighByte(i)] \o <<>> }

EncKeys == { IVAlt, [i \in 1..BlockSize |-> HighByte(5 * i)] \o <<>> }

InitEnc ==
    /\ emsg \in EncMsgs /\ ekey \in EncKeys
    /\ s \in {SBoxTest, SBoxAlt}
    /\ ab = << read_le(SubSeq(emsg, 1, 4)), read_le(SubSeq(emsg, 5, 8)) >>
    /\ prev = ab /\ rnd = 0 /\ eout = <<>>
    /\ pc = "ready"
    /\ h0 = ZeroBlock /\ h = ZeroBlock /\ n = ZeroAcc /\ sigma = ZeroAcc
    /\ buffer = <<>> /\ overflow_checks = FALSE
    /\ fed = <<>> /\ flog = <<>> /\ out = NoOut /\ cycle = 0 /\ calls = 0 /\ msgid = 0
    /\ LenIdle /\ SigIdle /\ Sha3Idle

\* the round key of the pass that led to the current ab
LastKey == read_u32v_le(ekey)[KeyIdx(rnd - 1)]

\* one pass of a loop body
EncRound ==
    /\ rnd < EncRounds
    /\ ab' = Round(ab, read_u32v_le(ekey)[KeyIdx(rnd)], s)
    /\ prev' = ab
    /\ rnd' = rnd + 1
    /\ UNCHANGED << emsg, ekey, eout >>
    /\ UNCHANGED << gostVars, lenVars, sigVars, sha3Vars >>

\* write_u32v_le(msg, &[b, a])
EncWrite ==
    /\ rnd = EncRounds /\ eout = <<>>
    /\ eout' = write_u32v_le(<< ab[2], ab[1] >>)
    /\ UNCHANGED << emsg, ekey, ab, rnd, prev >>
    /\ UNCHANGED << gostVars, lenVars, sigVars, sha3Vars >>

NextEnc == EncRound \/ EncWrite

SpecEnc == InitEnc /\ [][NextEnc]_vars

\* Reference arithmetic on bits: a u32 as its 32 bits, bit 0 first.
BitsOf(w) ==
    [i \in 1..(4 * Len(w)) |->
        (w[Len(w) - ((i - 1) \div 4)] \div Pow2((i - 1) % 4)) % 2] \o <<>>

\* the carry into bit i (from 1) of xb + yb: a lower bit position where both
\* bits are set, with one bit set at every position in between
CarryInto(xb, yb, i) ==
    IF \E j \in 1..(i - 1) :
           /\ xb[j] + yb[j] = 2
           /\ \A m \in (j + 1)..(i - 1) : xb[m] + yb[m] = 1
    THEN 1 ELSE 0

\* xb + yb mod 2^32
BitAdd(xb, yb) ==
    [i \in 1..Len(xb) |-> (xb[i] + yb[i] + CarryInto(xb, yb, i)) % 2] \o <<>>

BitXor(xb, yb) == [i \in 1..Len(xb) |-> (xb[i] + yb[i]) % 2] \o <<>>

\* rotation to the left by r: bit i of the result is bit i - r of xb
BitRotl(xb, r) ==
    [i \in 1..Len(xb) |-> xb[((i - 1 - r + Len(xb)) % Len(xb)) + 1]] \o <<>>

\* nibble q (from 0, least significant) of xb replaced by row q of the S-box
BitSub(xb, sb) ==
    [i \in 1..Len(xb) |->
        LET q == (i - 1) \div 4
            v == xb[(4 * q) + 1] + (2 * xb[(4 * q) + 2]) + (4 * xb[(4 * q) + 3])
                 + (8 * xb[(4 * q) + 4])
        IN  (sb[q + 1][v + 1] \div Pow2((i - 1) % 4)) % 2] \o <<>>

\* C10 (as claimed): in each pass the half is substituted, rotated left by 11,
\* then XORed with the round key; that value is XORed into the other half and
\* the halves swap.
RoundKeyXored ==
    rnd > 0 =>
        /\ ab[2] = prev[1]
        /\ BitsOf(ab[1])
           = BitXor(BitsOf(prev[2]),
                    BitXor(BitRotl(BitSub(BitsOf(prev[1]), s), 11), BitsOf(LastKey)))

\* C10 (amended): in each of the 32 passes the round key is added mod 2^32 to
\* the half, the sum is substituted by nibble through the S-box and rotated
\* left by 11; that value is XORed into the other half and the halves swap; the
\* keys are k[0..7] three times, then k[7..0]; the result is written as [b, a].
RoundKeyAdded ==
    /\ rnd \in 0..EncRounds
    /\ (rnd > 0 =>
           /\ ab[2] = prev[1]
           /\ BitsOf(ab[1])
              = BitXor(BitsOf(prev[2]),
                       BitRotl(BitSub(BitAdd(BitsOf(prev[1]), BitsOf(LastKey)), s), 11))
           /\ LastKey = read_le(SubSeq(ekey, (4 * (IF rnd <= 24 THEN (rnd - 1) % 8 ELSE 32 - rnd)) + 1,
                                              (4 * (IF rnd <= 24 THEN (rnd - 1) % 8 ELSE 32 - rnd)) + 4)))
    /\ (eout # <<>> =>
           /\ rnd = EncRounds
           /\ eout = write_le(ab[2]) \o write_le(ab[1])
           /\ eout = encrypt(emsg, ekey, s))

\* a pass in which the key addition carried, so that adding and XORing the key
\* differ, and a finished encryption
RoundKeyAddedWitness ==
    /\ rnd = EncRounds /\ eout # <<>> /\ eout # emsg
    /\ BitAdd(BitsOf(prev[1]), BitsOf(LastKey)) # BitXor(BitsOf(prev[1]), BitsOf(LastKey))

====
